---- MODULE Spec2Model ----
(***************************************************************************)
(* Synchronization core of cms-cli (src/index.js): the fileMap, the        *)
(* debounced pusher (scheduleUpdate), the conflict resolver (refreshFile), *)
(* the schema provisioner (createSchema), the chokidar watcher and the     *)
(* shutdown path (handleExit / cleanupFiles).                              *)
(*                                                                         *)
(* Granularity.  Node runs every handler to its next await.  An await on   *)
(* the network (apiClient.get/patch/post) is a suspension point: the call  *)
(* becomes a task in `inflight` and its response is a later action.  A     *)
(* file operation (readFile, outputFile, move, unlink) takes effect at the *)
(* point where it is called and its continuation follows at once.          *)
(* Time is kept in ticks of TickMs; a timer armed with DEBOUNCE_DELAY is   *)
(* due after TicksPerDelay ticks, and time does not pass a due timer.      *)
(***************************************************************************)
EXTENDS Integers, Sequences, FiniteSets, TLC

\* ------------------------------------------------------------- constants
DEBOUNCE_DELAY == 1000
TickMs == DEBOUNCE_DELAY \div 2
TicksPerDelay == DEBOUNCE_DELAY \div TickMs

\* ---------------------------------------------------------------- bounds
MaxUserOps == 3
\* user actions in the sessions that are followed through their shutdown
MaxExitOps == 2

Paths == {"a", "b"}
Contents == {"", "x", "y"}
Placeholder == "foo bar"
NoFile == "<absent>"
SnapshotIds == {1}
\* every provisioning of a new record needs at least one user action
Ids == 1..(Cardinality(SnapshotIds) + MaxUserOps)

NoRec == [id |-> 0, file_path |-> "", code |-> "", updated_at |-> 0]
NoTimer == 0

Rec(i, p, c, u) == [id |-> i, file_path |-> p, code |-> c, updated_at |-> u]

\* a remote call: apiClient.patch("/id"), apiClient.get("/id"), apiClient.post("/cli")
Call(c, i, p) == [call |-> c, id |-> i, path |-> p]

\* outside the two-event scenario nothing is recorded
NoPair == [on |-> FALSE, codeA |-> "", codeB |-> "", canonical |-> "",
           patch |-> TRUE, refresh |-> TRUE, post |-> TRUE, pget |-> TRUE, calls |-> {}]

VARIABLES
    fileMap,        \* fileMap: relative path -> last known record, NoRec when no key
    disk,           \* the workspace: path -> content, NoFile when there is no file
    pendingUpdates, \* pendingUpdates: record id -> timer handle, NoTimer when no key
    timers,         \* armed setTimeout callbacks with their closures
    inflight,       \* remote calls awaiting their response, with their closures
    events,         \* chokidar events emitted and not yet handled
    unwatched,      \* paths passed to watcher.unwatch and not re-added
    remote,         \* the backend: record id -> record
    isShuttingDown, \* the shutdown flag
    phase,          \* where main is: "config", "site", "fetch", "watch", "running",
                    \* "cleanup" (fs.remove under way), and the ends of the process:
                    \* "exited" (exit 0), "fatal" (exit 1), "crashed" (unhandled rejection)
    rewritten,      \* paths written by a handler while fs.remove is under way
    userOps,        \* number of user actions so far
    sinceEvent,     \* ticks since the last modified event of a record id (saturating)
    burstPushes,    \* Update calls started by timers armed in the current burst of an id
    last,           \* the step just taken
    options,        \* the command line: --token, --env, and what is typed at the token prompt
    API_BASE_URL,   \* the base URL of every remote call, "" before initConfig
    viewsDir,       \* TRUE when the directory VIEWS_DIR exists
    agentMd,        \* TRUE when VIEWS_DIR/AGENT.md exists
    refreshed,      \* paths that refreshFile overwrote after a failed Update and that
                    \* the user has not touched since
    pair            \* the two-event scenario: what its remote calls will answer and
                    \* the remote calls started so far (see InitPair)

\* what initConfig and fetchFiles set up and the handlers of a session leave alone
startup == <<options, API_BASE_URL, viewsDir, agentMd>>

vars == <<fileMap, disk, pendingUpdates, timers, inflight, events, unwatched,
          remote, isShuttingDown, phase, rewritten, userOps, sinceEvent, burstPushes,
          last, options, API_BASE_URL, viewsDir, agentMd, refreshed, pair>>

Step(a, p, i, h) == [act |-> a, path |-> p, id |-> i, h |-> h]

\* ------------------------------------------------------------ initConfig
API_BASE_URLS ==
    [localhost   |-> "http://localhost:9000/api/template",
     development |-> "https://app.sleekcms.net/api/template",
     production  |-> "https://app.sleekcms.com/api/template"]

\* .option("-e, --env <env>", ..., "production"): the default stands in for a missing --env
NoArg == "<none>"
Commander(arg) == IF arg = NoArg THEN "production" ELSE arg

\* a || b on strings: the empty string (and undefined, written "") is falsy
Or(a, b) == IF a # "" THEN a ELSE b

UpperCase == "ABCDEFGHIJKLMNOPQRSTUVWXYZ"
LowerCase == "abcdefghijklmnopqrstuvwxyz"

LowerChar(c) ==
    IF \E i \in 1..Len(UpperCase) : SubSeq(UpperCase, i, i) = c
    THEN LET i == CHOOSE j \in 1..Len(UpperCase) : SubSeq(UpperCase, j, j) = c
         IN SubSeq(LowerCase, i, i)
    ELSE c

RECURSIVE ToLowerCase(_)
ToLowerCase(s) ==
    IF s = "" THEN "" ELSE LowerChar(SubSeq(s, 1, 1)) \o ToLowerCase(SubSeq(s, 2, Len(s)))

RECURSIVE TrimStart(_)
TrimStart(s) ==
    IF s # "" /\ SubSeq(s, 1, 1) = " " THEN TrimStart(SubSeq(s, 2, Len(s))) ELSE s

RECURSIVE TrimEnd(_)
TrimEnd(s) ==
    IF s # "" /\ SubSeq(s, Len(s), Len(s)) = " " THEN TrimEnd(SubSeq(s, 1, Len(s) - 1)) ELSE s

Trim(s) == TrimEnd(TrimStart(s))

\* s.split('-'), acc being the part read so far
RECURSIVE Split(_, _)
Split(s, acc) ==
    IF s = "" THEN <<acc>>
    ELSE IF SubSeq(s, 1, 1) = "-" THEN <<acc>> \o Split(SubSeq(s, 2, Len(s)), "")
    ELSE Split(SubSeq(s, 2, Len(s)), acc \o SubSeq(s, 1, 1))

\* tokenParts[n] for a 0-based n: undefined (written "") past the end
Part(tokenParts, n) == IF Len(tokenParts) > n THEN tokenParts[n + 1] ELSE ""

\* ENV = (tokenParts[2] || options.env || "production").toLowerCase()
Env(token, env) ==
    ToLowerCase(Or(Part(Split(Trim(token), ""), 2), Or(env, "production")))

\* names that every object literal inherits from Object.prototype
Inherited == {"constructor", "__proto__"}

\* API_BASE_URL = API_BASE_URLS[ENV] || API_BASE_URLS.production
BaseUrl(env) ==
    IF env \in DOMAIN API_BASE_URLS THEN API_BASE_URLS[env]
    ELSE IF env \in Inherited THEN "<Object.prototype." \o env \o ">"
    ELSE API_BASE_URLS.production

\* ---------------------------------------------------------------- watcher
\* RegExp.test without anchors: the pattern occurs somewhere in the string
Contains(s, sub) ==
    \E i \in 1..(Len(s) - Len(sub) + 1) : SubSeq(s, i, i + Len(sub) - 1) = sub

\* RegExp.test of a pattern ending in $
EndsWith(s, suf) ==
    Len(s) >= Len(suf) /\ SubSeq(s, Len(s) - Len(suf) + 1, Len(s)) = suf

\* ignored: [/\.vscode\//, /AGENT\.md$/]
Ignored(p) == Contains(p, ".vscode/") \/ EndsWith(p, "AGENT.md")

\* chokidar reports nothing for a path that is ignored or was unwatched
WatchedIn(u, p) == p \notin u /\ ~Ignored(p)

Watched(p) == WatchedIn(unwatched, p)

\* chokidar reports a write to an existing file as "change" and a new file as "add"
WriteEvent(d, p) == [type |-> IF d[p] = NoFile THEN "add" ELSE "change", path |-> p]

EmitIn(q, u, e) == IF WatchedIn(u, e.path) THEN Append(q, e) ELSE q

Emit(q, e) == EmitIn(q, unwatched, e)

\* a handler's write lands while fs.remove is under way
Rewrites(p) == IF phase = "cleanup" THEN rewritten \cup {p} ELSE rewritten

\* ------------------------------------------------------------ fetchFiles
\* an entry is kept once it is there
SetEntryOnce(m, file) ==
    IF m[file.file_path] # NoRec THEN m ELSE [m EXCEPT ![file.file_path] = file]

\* fileMap[file.file_path] = file
SetEntry(m, file) == [m EXCEPT ![file.file_path] = file]

RECURSIVE FetchMap(_, _)
FetchMap(listing, m) ==
    IF listing = <<>> THEN m
    ELSE LET file == Head(listing)
         IN FetchMap(Tail(listing),
                     IF file.file_path # "" THEN SetEntry(m, file) ELSE m)

RECURSIVE FetchDisk(_, _)
FetchDisk(listing, d) ==
    IF listing = <<>> THEN d
    ELSE LET file == Head(listing)
         IN FetchDisk(Tail(listing),
                      IF file.file_path # "" THEN [d EXCEPT ![file.file_path] = file.code] ELSE d)

RECURSIVE ListingRemote(_, _)
ListingRemote(listing, r) ==
    IF listing = <<>> THEN r
    ELSE ListingRemote(Tail(listing), [r EXCEPT ![Head(listing).id] = Head(listing)])

Listings == { <<Rec(1, "a", "", 1)>> }

Init ==
    \E listing \in Listings :
        /\ fileMap = FetchMap(listing, [p \in Paths |-> NoRec])
        /\ disk = FetchDisk(listing, [p \in Paths |-> NoFile])
        /\ remote = ListingRemote(listing, [i \in Ids |-> NoRec])
        /\ pendingUpdates = [i \in Ids |-> NoTimer]
        /\ timers = {}
        /\ inflight = {}
        /\ events = <<>>
        /\ unwatched = {}
        /\ isShuttingDown = FALSE
        /\ phase = "running"
        /\ rewritten = {}
        /\ userOps = 0
        /\ sinceEvent = [i \in Ids |-> TicksPerDelay]
        /\ burstPushes = [i \in Ids |-> 0]
        /\ last = Step("init", "", 0, 0)
        /\ options = [token |-> "tok", arg |-> NoArg, env |-> Commander(NoArg), typed |-> ""]
        /\ API_BASE_URL = API_BASE_URLS.production
        /\ viewsDir = TRUE
        /\ agentMd = TRUE
        /\ refreshed = {}
        /\ pair = NoPair

\* the session: the watcher is started and the process has not ended
Alive == phase \in {"running", "cleanup"}

\* ------------------------------------------------- main, up to the session
MaxListing == 2

Tokens == {"", "tok", "ab-cd", "ab-cd-", "ab-cd-development", "ab-cd-LOCALHOST", "ab-cd-qa"}
Typed == {"", "tok", "ab-cd-development"}
EnvArgs == {NoArg, "production", "localhost", "development", "Development", "staging",
            "constructor"}

\* what the backend may hold at startup: up to MaxListing records, with or without a path
StartListings ==
    UNION { { [i \in 1..n |-> Rec(i, f[i].p, f[i].c, 1)] :
                f \in [1..n -> [p : Paths \cup {""}, c : {"", "x"}]] } : n \in 0..MaxListing }

\* the response of GET /: the records of the backend
RECURSIVE ListFrom(_, _)
ListFrom(r, i) ==
    IF i \notin Ids THEN <<>>
    ELSE (IF r[i] # NoRec THEN <<r[i]>> ELSE <<>>) \o ListFrom(r, i + 1)

List(r) == ListFrom(r, 1)

InitStart ==
    \E listing \in StartListings, token \in Tokens, arg \in EnvArgs, typed \in Typed :
        /\ token # "" => typed = ""
        /\ options = [token |-> token, arg |-> arg, env |-> Commander(arg), typed |-> typed]
        /\ API_BASE_URL = ""
        /\ viewsDir = FALSE
        /\ agentMd = FALSE
        /\ refreshed = {}
        /\ pair = NoPair
        /\ fileMap = [p \in Paths |-> NoRec]
        /\ disk = [p \in Paths |-> NoFile]
        /\ remote = ListingRemote(listing, [i \in Ids |-> NoRec])
        /\ pendingUpdates = [i \in Ids |-> NoTimer]
        /\ timers = {}
        /\ inflight = {}
        /\ events = <<>>
        /\ unwatched = {}
        /\ isShuttingDown = FALSE
        /\ phase = "config"
        /\ rewritten = {}
        /\ userOps = 0
        /\ sinceEvent = [i \in Ids |-> TicksPerDelay]
        /\ burstPushes = [i \in Ids |-> 0]
        /\ last = Step("start", "", 0, 0)

\* initConfig up to its await of apiClient.get("/site")
InitConfig ==
    /\ phase = "config"
    /\ LET AUTH_TOKEN == Or(options.token, options.typed) IN
       IF AUTH_TOKEN = ""
       THEN \* console.error("Token is required."); process.exit(1)
            /\ phase' = "fatal"
            /\ last' = Step("noToken", "", 0, 0)
            /\ UNCHANGED API_BASE_URL
       ELSE /\ API_BASE_URL' = BaseUrl(Env(AUTH_TOKEN, options.env))
            /\ phase' = "site"
            /\ last' = Step("config", "", 0, 0)
    /\ UNCHANGED <<fileMap, disk, pendingUpdates, timers, inflight, events, unwatched, remote,
                   isShuttingDown, rewritten, userOps, sinceEvent, burstPushes,
                   options, viewsDir, agentMd>>
    /\ UNCHANGED refreshed
    /\ UNCHANGED pair

\* the site lookup answers: initConfig returns and fetchFiles awaits apiClient.get("/")

SiteOk ==
    /\ phase = "site"
    /\ phase' = "fetch"
    /\ last' = Step("siteOk", "", 0, 0)
    /\ UNCHANGED <<fileMap, disk, pendingUpdates, timers, inflight, events, unwatched, remote,
                   isShuttingDown, rewritten, userOps, sinceEvent, burstPushes, startup>>
    /\ UNCHANGED refreshed
    /\ UNCHANGED pair

\* the site lookup fails: the await throws out of initConfig and out of main, and
\* main() has no catch

SiteFail ==
    /\ phase = "site"
    /\ phase' = "crashed"
    /\ last' = Step("siteFail", "", 0, 0)
    /\ UNCHANGED <<fileMap, disk, pendingUpdates, timers, inflight, events, unwatched, remote,
                   isShuttingDown, rewritten, userOps, sinceEvent, burstPushes, startup>>
    /\ UNCHANGED refreshed
    /\ UNCHANGED pair

\* fetchFiles after a successful GET /: ensureDir, one outputFile and one fileMap
\* entry per record with a file_path, then AGENT.md.  No watcher exists yet.

FetchOk ==
    /\ phase = "fetch"
    /\ viewsDir' = TRUE
    /\ disk' = FetchDisk(List(remote), disk)
    /\ fileMap' = FetchMap(List(remote), fileMap)
    /\ agentMd' = TRUE
    /\ phase' = "watch"
    /\ last' = Step("fetchOk", "", 0, 0)
    /\ UNCHANGED <<pendingUpdates, timers, inflight, events, unwatched, remote,
                   isShuttingDown, rewritten, userOps, sinceEvent, burstPushes,
                   options, API_BASE_URL>>
    /\ UNCHANGED refreshed
    /\ UNCHANGED pair

\* GET / fails: the catch logs and fetchFiles returns

FetchFail ==
    /\ phase = "fetch"
    /\ phase' = "watch"
    /\ last' = Step("fetchFail", "", 0, 0)
    /\ UNCHANGED <<fileMap, disk, pendingUpdates, timers, inflight, events, unwatched, remote,
                   isShuttingDown, rewritten, userOps, sinceEvent, burstPushes, startup>>
    /\ UNCHANGED refreshed
    /\ UNCHANGED pair

\* chokidar's first scan reports every file it finds as "add"
RECURSIVE InitialScan(_, _)

InitialScan(d, ps) ==
    IF ps = {} THEN <<>>
    ELSE LET p == CHOOSE q \in ps : TRUE
         IN (IF d[p] # NoFile /\ ~Ignored(p) THEN <<[type |-> "add", path |-> p]>> ELSE <<>>)
                \o InitialScan(d, ps \ {p})

ignoreInitialOff == FALSE

\* ignoreInitial: true
ignoreInitial == TRUE

\* monitorFiles: chokidar.watch(VIEWS_DIR, ...).on("change", ...).on("add", ...)
MonitorFiles ==
    /\ phase = "watch"
    /\ events' = IF ignoreInitial THEN events ELSE events \o InitialScan(disk, Paths)
    /\ phase' = "running"
    /\ last' = Step("watching", "", 0, 0)
    /\ UNCHANGED <<fileMap, disk, pendingUpdates, timers, inflight, unwatched, remote,
                   isShuttingDown, rewritten, userOps, sinceEvent, burstPushes, startup>>
    /\ UNCHANGED refreshed
    /\ UNCHANGED pair

\* ------------------------------------------------------------ the user

UserEdit(p, c) ==
    /\ Alive /\ ~isShuttingDown /\ userOps < MaxUserOps
    /\ UNCHANGED startup
    /\ refreshed' = refreshed \ {p}
    /\ UNCHANGED pair
    /\ disk[p] # NoFile
    /\ disk' = [disk EXCEPT ![p] = c]
    /\ events' = Emit(events, [type |-> "change", path |-> p])
    /\ userOps' = userOps + 1
    /\ last' = Step("edit", p, 0, 0)
    /\ UNCHANGED <<fileMap, pendingUpdates, timers, inflight, unwatched, remote,
                   isShuttingDown, phase, rewritten, sinceEvent, burstPushes>>

UserCreate(p, c) ==
    /\ Alive /\ ~isShuttingDown /\ userOps < MaxUserOps
    /\ UNCHANGED startup
    /\ refreshed' = refreshed \ {p}
    /\ UNCHANGED pair
    /\ disk[p] = NoFile
    /\ disk' = [disk EXCEPT ![p] = c]
    /\ events' = Emit(events, [type |-> "add", path |-> p])
    /\ userOps' = userOps + 1
    /\ last' = Step("create", p, 0, 0)
    /\ UNCHANGED <<fileMap, pendingUpdates, timers, inflight, unwatched, remote,
                   isShuttingDown, phase, rewritten, sinceEvent, burstPushes>>

UserDelete(p) ==
    /\ Alive /\ ~isShuttingDown /\ userOps < MaxUserOps
    /\ UNCHANGED startup
    /\ refreshed' = refreshed \ {p}
    /\ UNCHANGED pair
    /\ disk[p] # NoFile
    /\ disk' = [disk EXCEPT ![p] = NoFile]
    /\ userOps' = userOps + 1
    /\ last' = Step("delete", p, 0, 0)
    /\ UNCHANGED <<fileMap, pendingUpdates, timers, inflight, events, unwatched, remote,
                   isShuttingDown, phase, rewritten, sinceEvent, burstPushes>>

\* the remote call c is started
Log(c) == IF pair.on THEN [pair EXCEPT !.calls = @ \cup {c}] ELSE pair

\* ------------------------------------------------------------- handles
UsedHandles ==
    {t.h : t \in timers} \cup {t.h : t \in inflight}
        \cup {pendingUpdates[i] : i \in Ids}

FreshHandle == CHOOSE h \in 1..(Cardinality(UsedHandles) + 1) : h \notin UsedHandles

\* --------------------------------------------------------- scheduleUpdate
\* if (!file?.id)
Known(file) == file.id # 0

\* clearTimeout(pendingUpdates[file.id]): a fired handle is no longer in timers
ClearTimeout(ts, h) == {t \in ts : t.h # h}

\* a modified event less than DEBOUNCE_DELAY after the previous one of the id
InBurst(i) == sinceEvent[i] * TickMs < DEBOUNCE_DELAY

Timer(h, p, file) == [h |-> h, path |-> p, file |-> file, left |-> TicksPerDelay, cur |-> TRUE]

\* an unknown path handled as if it were a new file
UnknownPathProvisioned(p) ==
    /\ inflight' = inflight \cup {[h |-> FreshHandle, kind |-> "post", path |-> p,
                                    file |-> NoRec, code |-> "", read |-> "", id |-> 0]}
    /\ last' = Step("warn", p, 0, 0)
    /\ UNCHANGED <<fileMap, disk, pendingUpdates, timers, unwatched, remote,
                   isShuttingDown, phase, rewritten, userOps, sinceEvent, burstPushes>>

\* console.warn("Skipping update: No matching file found in API"); return
UnknownPath(p) ==
    /\ last' = Step("warn", p, 0, 0)
    /\ UNCHANGED <<fileMap, disk, pendingUpdates, timers, inflight, unwatched, remote,
                   isShuttingDown, phase, rewritten, userOps, sinceEvent, burstPushes>>

\* clearTimeout of the id's previous handle, then pendingUpdates[file.id] = setTimeout(...)
Arm(p, file) ==
    LET h == FreshHandle
        kept == ClearTimeout(timers, pendingUpdates[file.id])
        aged == IF InBurst(file.id) THEN kept
                ELSE {IF t.file.id = file.id THEN [t EXCEPT !.cur = FALSE] ELSE t : t \in kept}
    IN /\ timers' = aged \cup {Timer(h, p, file)}
       /\ pendingUpdates' = [pendingUpdates EXCEPT ![file.id] = h]
       /\ burstPushes' = IF InBurst(file.id) THEN burstPushes
                         ELSE [burstPushes EXCEPT ![file.id] = 0]
       /\ sinceEvent' = [sinceEvent EXCEPT ![file.id] = 0]
       /\ last' = Step("arm", p, file.id, h)
       /\ UNCHANGED <<fileMap, disk, inflight, unwatched, remote, isShuttingDown, phase,
                      rewritten, userOps>>

ScheduleUpdate(p) ==
    IF isShuttingDown
    THEN /\ last' = Step("skipUpdate", p, 0, 0)
         /\ UNCHANGED <<fileMap, disk, pendingUpdates, timers, inflight, unwatched, remote,
                        isShuttingDown, phase, rewritten, userOps, sinceEvent, burstPushes>>
    ELSE IF ~Known(fileMap[p]) THEN UnknownPath(p) ELSE Arm(p, fileMap[p])

\* .on("change", scheduleUpdate)
OnChange ==
    /\ Alive /\ events # <<>> /\ Head(events).type = "change"
    /\ UNCHANGED startup
    /\ UNCHANGED refreshed
    /\ UNCHANGED pair
    /\ events' = Tail(events)
    /\ ScheduleUpdate(Head(events).path)

\* ------------------------------------------------------ the timer callback
Task(h, k, p, file, code, read, i) ==
    [h |-> h, kind |-> k, path |-> p, file |-> file, code |-> code, read |-> read, id |-> i]

\* { code: code || "foo bar", updated_at: file.updated_at }
PatchBody(code) == IF code = "" THEN Placeholder ELSE code

\* if (code === file.code)
Unchanged(code, file) == code = file.code

\* refreshFile up to its await: apiClient.get(`/${fileMap[relativePath].id}`)
RefreshCall(h, p, read) == Task(h, "refresh", p, NoRec, "", read, fileMap[p].id)

TimerFire(t) ==
    /\ Alive /\ t \in timers /\ t.left = 0
    /\ UNCHANGED startup
    /\ UNCHANGED refreshed
    /\ timers' = timers \ {t}
    /\ LET code == disk[t.path] IN
       IF code = NoFile
       THEN \* fs.readFile throws: catch, refreshFile(filePath)
            /\ inflight' = inflight \cup {RefreshCall(t.h, t.path, NoFile)}
            /\ pair' = Log(Call("get", fileMap[t.path].id, ""))
            /\ last' = Step("readFail", t.path, t.file.id, t.h)
            /\ UNCHANGED <<pendingUpdates, burstPushes>>
       ELSE IF Unchanged(code, t.file)
       THEN /\ pendingUpdates' = [pendingUpdates EXCEPT ![t.file.id] = NoTimer]
            /\ last' = Step("noop", t.path, t.file.id, t.h)
            /\ UNCHANGED <<inflight, burstPushes, pair>>
       ELSE /\ inflight' = inflight \cup
                    {Task(t.h, "patch", t.path, t.file, PatchBody(code), code, t.file.id)}
            /\ pair' = Log(Call("patch", t.file.id, ""))
            /\ burstPushes' = IF t.cur
                              THEN [burstPushes EXCEPT ![t.file.id] = @ + 1]
                              ELSE burstPushes
            /\ last' = Step("push", t.path, t.file.id, t.h)
            /\ UNCHANGED pendingUpdates
    /\ UNCHANGED <<fileMap, disk, events, unwatched, remote, isShuttingDown, phase, rewritten,
                   userOps, sinceEvent>>

\* the backend applies PATCH /{id}: stores the code and moves updated_at on
Patched(r, code) == [r EXCEPT !.code = code, !.updated_at = @ + 1]

PutEntrySkipped(m, p, template) == m

PutEntryDropped(m, p, template) == [m EXCEPT ![p] = NoRec]

\* fileMap[relativePath] = template.data
PutEntry(m, p, template) == [m EXCEPT ![p] = template]

PatchOk(t) ==
    /\ Alive /\ t \in inflight /\ t.kind = "patch"
    /\ UNCHANGED startup
    /\ UNCHANGED refreshed
    /\ UNCHANGED pair
    /\ LET template == Patched(remote[t.id], t.code) IN
        /\ remote' = [remote EXCEPT ![t.id] = template]
        /\ fileMap' = PutEntry(fileMap, t.path, template)
    /\ pendingUpdates' = [pendingUpdates EXCEPT ![t.file.id] = NoTimer]
    /\ inflight' = inflight \ {t}
    /\ last' = Step("patchOk", t.path, t.id, t.h)
    /\ UNCHANGED <<disk, timers, events, unwatched, isShuttingDown, phase, rewritten, userOps,
                   sinceEvent, burstPushes>>

PatchFail(t) ==
    /\ Alive /\ t \in inflight /\ t.kind = "patch"
    /\ UNCHANGED startup
    /\ UNCHANGED refreshed
    /\ inflight' = (inflight \ {t}) \cup {RefreshCall(t.h, t.path, t.read)}
    /\ pair' = Log(Call("get", fileMap[t.path].id, ""))
    /\ last' = Step("patchFail", t.path, t.id, t.h)
    /\ UNCHANGED <<fileMap, disk, pendingUpdates, timers, events, unwatched, remote,
                   isShuttingDown, phase, rewritten, userOps, sinceEvent, burstPushes>>

\* ----------------------------------------------------------- refreshFile
OutputFileSkipped(d, p, code) == d

\* fs.outputFile(filePath, template.code)
OutputFile(d, p, code) == [d EXCEPT ![p] = code]

RefreshOk(t) ==
    /\ Alive /\ t \in inflight /\ t.kind = "refresh"
    /\ UNCHANGED startup
    /\ refreshed' = IF t.read = NoFile THEN refreshed ELSE refreshed \cup {t.path}
    /\ UNCHANGED pair
    /\ LET template == remote[t.id] IN
        /\ fileMap' = [fileMap EXCEPT ![t.path] = template]
        /\ disk' = OutputFile(disk, t.path, template.code)
    /\ events' = Emit(events, WriteEvent(disk, t.path))
    /\ rewritten' = Rewrites(t.path)
    /\ inflight' = inflight \ {t}
    /\ last' = Step(IF t.read = NoFile THEN "restoreOk" ELSE "refreshOk", t.path, t.id, t.h)
    /\ UNCHANGED <<pendingUpdates, timers, unwatched, remote, isShuttingDown, phase,
                   userOps, sinceEvent, burstPushes>>

RefreshFail(t) ==
    /\ Alive /\ t \in inflight /\ t.kind = "refresh"
    /\ UNCHANGED startup
    /\ UNCHANGED refreshed
    /\ UNCHANGED pair
    /\ inflight' = inflight \ {t}
    /\ last' = Step("refreshFail", t.path, t.id, t.h)
    /\ UNCHANGED <<fileMap, disk, pendingUpdates, timers, events, unwatched, remote,
                   isShuttingDown, phase, rewritten, userOps, sinceEvent, burstPushes>>

\* ------------------------------------------------------------------ time
Sat(n) == IF n < TicksPerDelay THEN n + 1 ELSE n

Tick ==
    /\ Alive
    /\ UNCHANGED startup
    /\ UNCHANGED refreshed
    /\ UNCHANGED pair
    /\ \A t \in timers : t.left > 0
    /\ timers' = {[t EXCEPT !.left = @ - 1] : t \in timers}
    /\ sinceEvent' = [i \in Ids |-> Sat(sinceEvent[i])]
    /\ UNCHANGED <<fileMap, disk, pendingUpdates, inflight, events, unwatched, remote,
                   isShuttingDown, phase, rewritten, userOps, burstPushes, last>>

\* ---------------------------------------------------------- createSchema
\* createSchema posting twice
CreateSchemaTwice(p) ==
    LET h == FreshHandle
        g == CHOOSE k \in 1..(Cardinality(UsedHandles) + 2) : k \notin UsedHandles \cup {h}
    IN /\ inflight' = inflight \cup
            {[h |-> k, kind |-> "post", path |-> p, file |-> NoRec,
              code |-> "", read |-> "", id |-> 0] : k \in {h, g}}
       /\ last' = Step("post", p, 0, h)

\* createSchema without its first line
CreateSchemaUnguarded(p) ==
    LET h == FreshHandle IN
    /\ inflight' = inflight \cup {[h |-> h, kind |-> "post", path |-> p, file |-> NoRec,
                                    code |-> "", read |-> "", id |-> 0]}
    /\ last' = Step("post", p, 0, h)

CreateSchema(p) ==
    IF isShuttingDown
    THEN /\ last' = Step("skipCreate", p, 0, 0)
         /\ UNCHANGED inflight
    ELSE LET h == FreshHandle IN
         /\ inflight' = inflight \cup {Task(h, "post", p, NoRec, "", "", 0)}
         /\ last' = Step("post", p, 0, h)

\* .on("add", createSchema)
OnAdd ==
    /\ Alive /\ events # <<>> /\ Head(events).type = "add"
    /\ UNCHANGED startup
    /\ UNCHANGED refreshed
    /\ events' = Tail(events)
    /\ CreateSchema(Head(events).path)
    /\ pair' = IF isShuttingDown THEN pair ELSE Log(Call("post", 0, Head(events).path))
    /\ UNCHANGED <<fileMap, disk, pendingUpdates, timers, unwatched, remote,
                   isShuttingDown, phase, rewritten, userOps, sinceEvent, burstPushes>>

\* the backend answers POST /cli: a new record at the path it decides on
FreeIds == {i \in Ids : remote[i] = NoRec}
NewId == CHOOSE i \in FreeIds : \A j \in FreeIds : i <= j
TemplateCodes == {""}

PostOk(t) ==
    /\ Alive /\ t \in inflight /\ t.kind = "post"
    /\ UNCHANGED startup
    /\ UNCHANGED refreshed
    /\ pair' = Log(Call("get", NewId, ""))
    /\ FreeIds # {}
    /\ \E canonical \in Paths, c \in TemplateCodes :
        /\ remote' = [remote EXCEPT ![NewId] = Rec(NewId, canonical, c, 1)]
        /\ inflight' = (inflight \ {t}) \cup {Task(t.h, "pget", t.path, NoRec, "", "", NewId)}
    /\ last' = Step("postOk", t.path, NewId, t.h)
    /\ UNCHANGED <<fileMap, disk, pendingUpdates, timers, events, unwatched,
                   isShuttingDown, phase, rewritten, userOps, sinceEvent, burstPushes>>

\* fs.unlink rejects when there is no file at p.  It is awaited inside the catch
\* block of createSchema, so the rejection leaves the handler and nothing handles
\* it: the runtime then ends the process or only warns, depending on its version.
AfterUnlink(d, p) == IF d[p] = NoFile THEN {phase, "crashed"} ELSE {phase}

UnlinkSkipped(d, p) == d

\* catch: fs.unlink(filePath); the file is gone afterwards whether or not it was there
Unlink(d, p) == [d EXCEPT ![p] = NoFile]

PostFail(t) ==
    /\ Alive /\ t \in inflight /\ t.kind = "post"
    /\ UNCHANGED startup
    /\ UNCHANGED refreshed
    /\ UNCHANGED pair
    /\ disk' = Unlink(disk, t.path)
    /\ phase' \in AfterUnlink(disk, t.path)
    /\ inflight' = inflight \ {t}
    /\ last' = Step("postFail", t.path, 0, t.h)
    /\ UNCHANGED <<fileMap, pendingUpdates, timers, events, unwatched, remote,
                   isShuttingDown, rewritten, userOps, sinceEvent, burstPushes>>

PGetFail(t) ==
    /\ Alive /\ t \in inflight /\ t.kind = "pget"
    /\ UNCHANGED startup
    /\ UNCHANGED refreshed
    /\ UNCHANGED pair
    /\ disk' = Unlink(disk, t.path)
    /\ phase' \in AfterUnlink(disk, t.path)
    /\ inflight' = inflight \ {t}
    /\ last' = Step("pgetFail", t.path, t.id, t.h)
    /\ UNCHANGED <<fileMap, pendingUpdates, timers, events, unwatched, remote,
                   isShuttingDown, rewritten, userOps, sinceEvent, burstPushes>>

\* fs.move with { overwrite: true }
CanMoveOverwrite(d, old, new) == d[old] # NoFile

\* fs.move(oldPath, newPath) without overwrite: needs the source, refuses a destination
CanMove(d, old, new) == d[old] # NoFile /\ d[new] = NoFile
Move(d, old, new) == [d EXCEPT ![new] = d[old], ![old] = NoFile]

UnwatchSkipped(u, p) == u

\* watcher.unwatch(newPath) ... watcher.add(newPath)
Unwatch(u, p) == u \cup {p}
RewatchSkipped(u, p) == u
Rewatch(u, p) == u \ {p}

PGetOk(t) ==
    /\ Alive /\ t \in inflight /\ t.kind = "pget"
    /\ UNCHANGED startup
    /\ UNCHANGED refreshed
    /\ UNCHANGED pair
    /\ inflight' = inflight \ {t}
    /\ LET template == remote[t.id]
           new == template.file_path
       IN IF t.path # new
          THEN IF CanMove(disk, t.path, new)
               THEN \* the file appears at newPath while newPath is unwatched
                    /\ disk' = Move(disk, t.path, new)
                    /\ events' = EmitIn(events, Unwatch(unwatched, new),
                                        [type |-> "add", path |-> new])
                    /\ rewritten' = Rewrites(new)
                    /\ unwatched' = Rewatch(Unwatch(unwatched, new), new)
                    /\ fileMap' = [fileMap EXCEPT ![new] = template]
                    /\ last' = Step("renamed", t.path, t.id, t.h)
                    /\ UNCHANGED phase
               ELSE \* fs.move throws after unwatch: catch, fs.unlink(filePath)
                    /\ disk' = Unlink(disk, t.path)
                    /\ phase' \in AfterUnlink(disk, t.path)
                    /\ unwatched' = Unwatch(unwatched, new)
                    /\ last' = Step("moveFail", t.path, t.id, t.h)
                    /\ UNCHANGED <<fileMap, rewritten, events>>
          ELSE /\ fileMap' = [fileMap EXCEPT ![new] = template]
               /\ last' = Step("created", t.path, t.id, t.h)
               /\ UNCHANGED <<disk, unwatched, rewritten, events, phase>>
    /\ UNCHANGED <<pendingUpdates, timers, remote, isShuttingDown,
                   userOps, sinceEvent, burstPushes>>

\* ------------------------------------------------------------- handleExit
HandleExit ==
    /\ Alive
    /\ UNCHANGED startup
    /\ UNCHANGED refreshed
    /\ UNCHANGED pair
    /\ IF isShuttingDown
       THEN \* if (isShuttingDown) return
            UNCHANGED <<isShuttingDown, phase, last>>
       ELSE /\ isShuttingDown' = TRUE
            /\ phase' = "cleanup"
            /\ last' = Step("exit", "", 0, 0)
    /\ UNCHANGED <<fileMap, disk, pendingUpdates, timers, inflight, events, unwatched,
                   remote, rewritten, userOps, sinceEvent, burstPushes>>

\* cleanupFiles, then process.exit(0) in the same turn of the event loop.
\* fs.remove deletes entry by entry; a file a handler wrote meanwhile may have
\* been written after its directory was listed, and then survives.
Removed(d) == { r \in [Paths -> Contents \cup {Placeholder, NoFile}] :
                  \A p \in Paths : r[p] = NoFile \/ (p \in rewritten /\ r[p] = d[p]) }

CleanupFiles ==
    /\ phase = "cleanup"
    /\ disk' \in Removed(disk)
    /\ agentMd' = FALSE
    /\ viewsDir' = (\E p \in Paths : disk'[p] # NoFile)
    /\ phase' = "exited"
    /\ last' = Step("exited", "", 0, 0)
    \* process.exit(0): the memory of the process is gone, with its timers, its
    \* watcher and the calls it was waiting for
    /\ fileMap' = [p \in Paths |-> NoRec]
    /\ pendingUpdates' = [i \in Ids |-> NoTimer]
    /\ timers' = {}
    /\ inflight' = {}
    /\ events' = <<>>
    /\ unwatched' = {}
    /\ UNCHANGED <<remote, isShuttingDown, rewritten, userOps, sinceEvent, burstPushes,
                   options, API_BASE_URL>>
    /\ UNCHANGED refreshed
    /\ UNCHANGED pair

\* ------------------------------------------------------- specifications

User ==
    \/ \E p \in Paths, c \in Contents : UserEdit(p, c)
    \/ \E p \in Paths, c \in Contents : UserCreate(p, c)
    \/ \E p \in Paths : UserDelete(p)

Pusher ==
    \/ OnChange
    \/ \E t \in timers : TimerFire(t)
    \/ \E t \in inflight : PatchOk(t)
    \/ \E t \in inflight : PatchFail(t)
    \/ \E t \in inflight : RefreshOk(t)
    \/ \E t \in inflight : RefreshFail(t)

Provisioner ==
    \/ OnAdd
    \/ \E t \in inflight : PostOk(t)
    \/ \E t \in inflight : PostFail(t)
    \/ \E t \in inflight : PGetOk(t)
    \/ \E t \in inflight : PGetFail(t)

Shutdown == HandleExit \/ CleanupFiles

\* main from its first line to the start of the session
NextStart == InitConfig \/ SiteOk \/ SiteFail \/ FetchOk \/ FetchFail \/ MonitorFiles

SpecStart == InitStart /\ [][NextStart]_vars

\* a session that is not shut down
Next == User \/ Pusher \/ Provisioner \/ Tick

Spec == Init /\ [][Next]_vars

\* a session with its shutdown, the user acting at most MaxExitOps times
UserExit ==
    /\ userOps < MaxExitOps
    /\ User

NextExit == UserExit \/ Pusher \/ Provisioner \/ Tick \/ Shutdown

SpecExit == Init /\ [][NextExit]_vars

\* a session in a workspace that also has the reference document, an editor
\* settings file and a document of the same name in a subdirectory
WatchPaths == Paths \cup {"AGENT.md", ".vscode/settings.json", "docs/AGENT.md"}

agentMdContent == "# agent"

InitWatch ==
    \E listing \in Listings :
        /\ fileMap = FetchMap(listing, [p \in WatchPaths |-> NoRec])
        /\ disk = [FetchDisk(listing, [p \in WatchPaths |-> NoFile])
                      EXCEPT !["AGENT.md"] = agentMdContent]
        /\ remote = ListingRemote(listing, [i \in Ids |-> NoRec])
        /\ pendingUpdates = [i \in Ids |-> NoTimer]
        /\ timers = {}
        /\ inflight = {}
        /\ events = <<>>
        /\ unwatched = {}
        /\ isShuttingDown = FALSE
        /\ phase = "running"
        /\ rewritten = {}
        /\ userOps = 0
        /\ sinceEvent = [i \in Ids |-> TicksPerDelay]
        /\ burstPushes = [i \in Ids |-> 0]
        /\ last = Step("init", "", 0, 0)
        /\ options = [token |-> "tok", arg |-> NoArg, env |-> Commander(NoArg), typed |-> ""]
        /\ API_BASE_URL = API_BASE_URLS.production
        /\ viewsDir = TRUE
        /\ agentMd = TRUE
        /\ refreshed = {}
        /\ pair = NoPair

NextWatch ==
    \/ \E p \in WatchPaths : UserEdit(p, "x")
    \/ \E p \in WatchPaths : UserCreate(p, "x")
    \/ \E p \in WatchPaths : UserDelete(p)
    \/ Pusher
    \/ Provisioner
    \/ Tick

SpecWatch == InitWatch /\ [][NextWatch]_vars

\* a created event for PathA and a modified event for PathB, the path of the
\* record of the snapshot, are waiting; the user does nothing more.  What each
\* remote call of the two handlers will answer is fixed from the start (pair),
\* so that only the order of the steps differs between two behaviours.
PathA == "b"
PathB == "a"
RecB == Head(CHOOSE listing \in Listings : TRUE)

Fates ==
    [on : {TRUE}, codeA : Contents, codeB : Contents, canonical : Paths,
     patch : BOOLEAN, refresh : BOOLEAN, post : BOOLEAN, pget : BOOLEAN, calls : {{}}]

InitPair ==
    \E f \in Fates, first \in {"add", "change"} :
        /\ pair = f
        /\ fileMap = [[p \in Paths |-> NoRec] EXCEPT ![PathB] = RecB]
        /\ disk = [[p \in Paths |-> NoFile] EXCEPT ![PathB] = f.codeB, ![PathA] = f.codeA]
        /\ remote = [[i \in Ids |-> NoRec] EXCEPT ![RecB.id] = RecB]
        /\ events = IF first = "add"
                    THEN << [type |-> "add", path |-> PathA], [type |-> "change", path |-> PathB] >>
                    ELSE << [type |-> "change", path |-> PathB], [type |-> "add", path |-> PathA] >>
        /\ last = IF first = "add" THEN Step("edit", PathB, 0, 0) ELSE Step("create", PathA, 0, 0)
        /\ userOps = 2
        /\ pendingUpdates = [i \in Ids |-> NoTimer]
        /\ timers = {}
        /\ inflight = {}
        /\ unwatched = {}
        /\ isShuttingDown = FALSE
        /\ phase = "running"
        /\ rewritten = {}
        /\ sinceEvent = [i \in Ids |-> TicksPerDelay]
        /\ burstPushes = [i \in Ids |-> 0]
        /\ options = [token |-> "tok", arg |-> NoArg, env |-> Commander(NoArg), typed |-> ""]
        /\ API_BASE_URL = API_BASE_URLS.production
        /\ viewsDir = TRUE
        /\ agentMd = TRUE
        /\ refreshed = {}

NextPair ==
    \/ OnChange
    \/ OnAdd
    \/ \E t \in timers : TimerFire(t)
    \/ Tick
    \/ \E t \in inflight : pair.patch /\ PatchOk(t)
    \/ \E t \in inflight : ~pair.patch /\ PatchFail(t)
    \/ \E t \in inflight : pair.refresh /\ RefreshOk(t)
    \/ \E t \in inflight : ~pair.refresh /\ RefreshFail(t)
    \/ \E t \in inflight : pair.post /\ PostOk(t) /\ remote'[NewId].file_path = pair.canonical
    \/ \E t \in inflight : ~pair.post /\ PostFail(t)
    \/ \E t \in inflight : pair.pget /\ PGetOk(t)
    \/ \E t \in inflight : ~pair.pget /\ PGetFail(t)

SpecPair == InitPair /\ [][NextPair]_vars

\* a session in which no remote call fails and no file is deleted; the event
\* loop delivers every event, fires every due timer and every response arrives
NextLive ==
    \/ \E p \in Paths, c \in Contents : UserEdit(p, c)
    \/ \E p \in Paths, c \in Contents : UserCreate(p, c)
    \/ OnChange
    \/ OnAdd
    \/ \E t \in timers : TimerFire(t)
    \/ \E t \in inflight : PatchOk(t)
    \/ \E t \in inflight : PostOk(t)
    \/ \E t \in inflight : PGetOk(t)
    \/ Tick

SpecLive ==
    /\ Init /\ [][NextLive]_vars
    /\ WF_vars(OnChange) /\ WF_vars(OnAdd) /\ WF_vars(Tick)
    /\ WF_vars(\E t \in timers : TimerFire(t))
    /\ WF_vars(\E t \in inflight : PatchOk(t))
    /\ WF_vars(\E t \in inflight : PostOk(t))
    /\ WF_vars(\E t \in inflight : PGetOk(t))

\* the same session, in which the user also deletes files
NextLiveDelete ==
    \/ NextLive
    \/ \E p \in Paths : UserDelete(p)
    \/ \E t \in inflight : RefreshOk(t)

SpecLiveDelete ==
    /\ Init /\ [][NextLiveDelete]_vars
    /\ WF_vars(OnChange) /\ WF_vars(OnAdd) /\ WF_vars(Tick)
    /\ WF_vars(\E t \in timers : TimerFire(t))
    /\ WF_vars(\E t \in inflight : PatchOk(t))
    /\ WF_vars(\E t \in inflight : RefreshOk(t))
    /\ WF_vars(\E t \in inflight : PostOk(t))
    /\ WF_vars(\E t \in inflight : PGetOk(t))

\* ------------------------------------------------------------------ claims
InSyncMap(p) == fileMap[p] # NoRec

\* C1 (the claim's upper half): a burst of modified events of one record, each
\* less than DEBOUNCE_DELAY after the previous one, never results in more than
\* one Update call for that record id.  Stated for the runs in which every
\* Update in flight carries what was read, so that the placeholder of C2 plays
\* no part in a violation.
C1_OnePushPerBurst ==
    (\A t \in inflight : t.kind = "patch" => t.code = t.read)
        => \A i \in Ids : burstPushes[i] <= 1

\* C2: every Update call carries exactly the content read from the file when
\* the timer fired, the empty string included.
C2_PushSendsWhatWasRead ==
    \A t \in inflight : t.kind = "patch" => t.code = t.read

\* C3: a timer that fires while the file's content equals the content of the
\* record that fileMap holds for the path at that moment makes no Update call
\* (stated for a path that still holds the record the timer was armed for).
C3_NoPushWhenInSync ==
    (last.act = "push" /\ fileMap[last.path].id = last.id)
        => disk[last.path] # fileMap[last.path].code

\* C4: handling a modified event for a path that is not a key of fileMap arms
\* no timer and starts no remote call.
C4_UnknownPathSafe ==
    [][(/\ events # <<>>
        /\ events' = Tail(events)
        /\ Head(events).type = "change"
        /\ ~InSyncMap(Head(events).path))
       => (timers' = timers /\ pendingUpdates' = pendingUpdates /\ inflight' = inflight)]_vars

\* a modified event for an unknown path was just handled while the
\* provisioning of that same path was still in flight
C4_Witness ==
    /\ last.act = "warn"
    /\ \E t \in inflight : t.kind \in {"post", "pget"} /\ t.path = last.path

\* C5: a failed Update is followed by a Get for the id fileMap records for the
\* path, and when that Get succeeds the file holds exactly the fetched content
\* and fileMap[P] is exactly the fetched record.
C5_ConflictResolution ==
    /\ last.act = "patchFail" =>
           \E t \in inflight : /\ t.kind = "refresh" /\ t.h = last.h
                                /\ t.path = last.path /\ t.id = fileMap[last.path].id
    /\ last.act = "refreshOk" =>
           /\ disk[last.path] = remote[last.id].code
           /\ fileMap[last.path] = remote[last.id]

\* an Update failed and the Get that followed has just succeeded
C5_Witness ==
    /\ last.act = "refreshOk"
    /\ fileMap[last.path].id = last.id
    /\ disk[last.path] = fileMap[last.path].code

\* C6: once edits and creations have stopped and every call has completed, the
\* content of every file that has a fileMap entry equals the entry's content,
\* from some point on for ever.  Stated for the behaviours in which the user
\* stops before the bound on user actions is reached.
C6_EventuallyConsistent ==
    <>[](userOps < MaxUserOps =>
            \A p \in Paths : InSyncMap(p) => disk[p] = fileMap[p].code)

\* the provisioning of t found a canonical path that differs from the created one
Relocating(t) == t.kind = "pget" /\ remote[t.id].file_path # t.path

\* C7: a successful provisioning whose canonical path C differs from the created
\* path P leaves the content P had at C, and no file at P.
C7_FileEndsAtCanonicalPath ==
    [][\A t \in inflight :
          (/\ Relocating(t) /\ disk[t.path] # NoFile
           /\ last'.act \in {"renamed", "moveFail"} /\ last'.h = t.h)
          => (/\ disk'[remote[t.id].file_path] = disk[t.path]
              /\ disk'[t.path] = NoFile)]_vars

\* C8 as stated: after a relocation the old path is not watched and the new one is.
C8_OldPathUnwatched ==
    last.act = "renamed" =>
        (~Watched(last.path) /\ Watched(remote[last.id].file_path))

\* C8 as amended: the relocation takes the new path C out of the watcher before
\* the move and puts it back after it; the move emits no event, afterwards C is
\* watched, and the watch state of the old path P is what it was.
C8_NewPathRewatched ==
    [][\A t \in inflight :
          (Relocating(t) /\ last'.act = "renamed" /\ last'.h = t.h)
          => (/\ remote[t.id].file_path \notin unwatched'
              /\ (t.path \in unwatched') = (t.path \in unwatched)
              /\ events' = events)]_vars

\* a created file was just relocated to its canonical path
C8_Witness ==
    /\ last.act = "renamed"
    /\ disk[last.path] = NoFile
    /\ disk[remote[last.id].file_path] # NoFile

\* C9: after a relocation from P to C, fileMap[C] is the canonical record and
\* fileMap has no entry under P.
C9_NoEntryUnderOldPath ==
    last.act = "renamed" =>
        (/\ fileMap[remote[last.id].file_path] = remote[last.id]
         /\ ~InSyncMap(last.path))

\* C10: a failed Provision or follow-up Get deletes the file at P, leaves
\* fileMap unchanged and starts no other call or event for P.
C10_ProvisionFailure ==
    [][\A t \in inflight :
          (/\ t.kind \in {"post", "pget"}
           /\ last'.act \in {"postFail", "pgetFail"} /\ last'.h = t.h)
          => (/\ disk'[t.path] = NoFile
              /\ fileMap' = fileMap
              /\ inflight' = inflight \ {t}
              /\ events' = events)]_vars

\* a provisioning just failed and the created file, still there, was deleted
C10_Witness ==
    /\ last.act \in {"postFail", "pgetFail"}
    /\ disk[last.path] = NoFile
    /\ ~InSyncMap(last.path)

\* the records of a listing that declare path p, by their position
Declaring(listing, p) == {i \in 1..Len(listing) : listing[i].file_path = p}

Files == {p \in Paths : disk[p] # NoFile}
Entries == {p \in Paths : InSyncMap(p)}

\* C11 as stated: after fetchFiles has handled a successful listing of K records
\* that each declare a path, the workspace holds exactly K synchronized files,
\* each with the content of its record, and fileMap has exactly K entries.
C11_SnapshotCompleteness ==
    LET listing == List(remote)
        K == Len(listing)
    IN (last.act = "fetchOk" /\ \A i \in 1..K : listing[i].file_path # "")
       => (/\ Cardinality(Files) = K
           /\ Cardinality(Entries) = K
           /\ \A i \in 1..K : disk[listing[i].file_path] = listing[i].code)

\* C11 as amended: after fetchFiles has handled a successful listing, every path
\* that no record declares has no file and no entry, and every path that some
\* record declares holds the content of the last record declaring it, with that
\* record as its fileMap entry; so there are as many files and entries as
\* distinct declared paths, K when the K paths are pairwise distinct.
C11_OneFilePerDeclaredPath ==
    LET listing == List(remote) IN
    last.act = "fetchOk" =>
        /\ \A p \in Paths :
              IF Declaring(listing, p) = {}
              THEN disk[p] = NoFile /\ ~InSyncMap(p)
              ELSE LET i == CHOOSE j \in Declaring(listing, p) :
                                \A k \in Declaring(listing, p) : k <= j
                   IN disk[p] = listing[i].code /\ fileMap[p] = listing[i]
        /\ Cardinality(Files) = Cardinality({p \in Paths : Declaring(listing, p) # {}})
        /\ Cardinality(Entries) = Cardinality(Files)

\* the snapshot has just handled a listing in which two records with different
\* content declare the same path
C11_Witness ==
    /\ last.act = "fetchOk"
    /\ \E p \in Paths : \E i, j \in Declaring(List(remote), p) :
          /\ i < j
          /\ List(remote)[i].code # List(remote)[j].code
          /\ disk[p] = List(remote)[j].code

\* C12: when the List call fails the session goes on (the watcher is still to be
\* started, the process has not ended) with fileMap empty and with the
\* workspace directory existing and empty.
C12_SnapshotFailure ==
    last.act = "fetchFail" =>
        /\ phase = "watch"
        /\ Entries = {}
        /\ viewsDir
        /\ Files = {} /\ ~agentMd

\* C13: the first shutdown trigger removes the workspace directory and all its
\* descendants, so that when the process has exited the workspace does not
\* exist, whatever timers or remote calls were pending.
C13_Teardown ==
    phase = "exited" => (~viewsDir /\ Files = {} /\ ~agentMd)

\* C14: once isShuttingDown is set, the handling of a modified or created event
\* (a step of the process, still alive, that takes an event off the queue) arms
\* no timer, starts no remote call and changes neither fileMap, nor
\* pendingUpdates, nor any file.
C14_ShutdownSuppression ==
    [][(isShuttingDown /\ events # <<>> /\ events' = Tail(events) /\ phase' = phase)
       => (/\ timers' = timers /\ pendingUpdates' = pendingUpdates
           /\ inflight' = inflight
           /\ fileMap' = fileMap
           /\ disk' = disk /\ viewsDir' = viewsDir /\ agentMd' = agentMd)]_vars

\* the created event of a file that is still there and has no fileMap entry was
\* just dropped because of the flag
C14_Witness ==
    /\ isShuttingDown
    /\ last.act = "skipCreate"
    /\ disk[last.path] # NoFile /\ ~InSyncMap(last.path)

\* C15: no Update call is started after the shutdown trigger: a timer that is
\* pending when isShuttingDown is set never pushes.
C15_PendingWorkLost ==
    last.act = "push" => ~isShuttingDown

\* C16: the process ends without a shutdown trigger only at startup and only
\* because no token was given; no failing remote call or file operation ends it.
C16_NoFailureIsFatal ==
    phase \in {"fatal", "crashed"} =>
        (phase = "fatal" /\ options.token = "" /\ options.typed = "")

\* the paths the claim excludes: AGENT.md at the workspace root and every file
\* inside a directory named .vscode
Excluded(p) ==
    \/ p = "AGENT.md"
    \/ Contains("/" \o p, "/.vscode/")

\* C17: while no path has been taken out of the watcher, a change to or creation
\* of an excluded file produces no event, and a change to or creation of any
\* other file of the workspace produces its modified or created event.
C17_WatchExclusions ==
    [][\A p \in WatchPaths :
          (unwatched = {} /\ last'.act \in {"edit", "create"} /\ last'.path = p)
          => IF Excluded(p)
             THEN events' = events
             ELSE events' = Append(events, [type |-> IF last'.act = "edit" THEN "change"
                                                     ELSE "add",
                                            path |-> p])]_vars

\* the order of the stages of main
Stage ==
    [config |-> 0, site |-> 1, fetch |-> 2, watch |-> 3, running |-> 4,
     cleanup |-> 5, exited |-> 6, fatal |-> 6, crashed |-> 6]

\* C18: main never goes back to a stage it has left, so fetchFiles runs once;
\* fileMap and the workspace are filled only in the step that ends fetchFiles,
\* which is taken before the watcher is started and emits no event; and when
\* the watcher starts there is no event, no timer and no remote call.
C18_StartupOrdering ==
    [][/\ Stage[phase'] > Stage[phase]
       /\ (fileMap' # fileMap \/ disk' # disk \/ agentMd' # agentMd \/ viewsDir' # viewsDir)
              => (phase = "fetch" /\ phase' = "watch" /\ events' = events)
       /\ phase' = "running"
              => (phase = "watch" /\ events' = <<>> /\ timers' = {} /\ inflight' = {})]_vars

\* the watcher has started on a workspace that holds files of the snapshot and
\* the reference document
C18_Witness ==
    /\ phase = "running"
    /\ Files # {} /\ agentMd /\ Entries = Files
    /\ events = <<>> /\ inflight = {}

\* C19: when the user deletes a file that has a fileMap entry, the record of
\* that entry is eventually gone from the backend.  Stated for the behaviours in
\* which the user stops before the bound on user actions is reached.
C19_DeleteReachesServer ==
    \A i \in Ids :
        (last.act = "delete" /\ fileMap[last.path].id = i)
            ~> (remote[i] = NoRec \/ userOps = MaxUserOps)

\* C20: once initConfig has chosen it, the base URL of the remote calls is the
\* URL mapped to the name given by --env when that name is localhost,
\* development or production, whatever the token, and the production URL when
\* --env is absent.
C20_EnvSelection ==
    phase \notin {"config", "fatal"} =>
        /\ options.arg \in DOMAIN API_BASE_URLS => API_BASE_URL = API_BASE_URLS[options.arg]
        /\ options.arg = NoArg => API_BASE_URL = API_BASE_URLS.production

\* C21: once initConfig has chosen it, the base URL is the production URL
\* whenever the environment name in force (the third part of the token, else
\* --env), taken in lower case, is none of localhost, development, production.
C21_EnvFallback ==
    phase \notin {"config", "fatal"} =>
        (Env(Or(options.token, options.typed), options.env) \notin DOMAIN API_BASE_URLS
            => API_BASE_URL = API_BASE_URLS.production)

\* the armed timers of record id i
Armed(i) == {t \in timers : t.file.id = i}

\* C22: in every reachable state at most one debounce timer is armed for each
\* record id.
C22_TimerUniqueness ==
    \A i \in Ids : Cardinality(Armed(i)) <= 1

\* C23: a debounce timer of a record id fires no earlier than DEBOUNCE_DELAY
\* after the most recent modified event of that id.
C23_TrueDebounce ==
    last.act \in {"push", "noop", "readFail"} =>
        sinceEvent[last.id] * TickMs >= DEBOUNCE_DELAY

\* C24: the updated_at sent with an Update call for path P is that of fileMap[P]
\* at the moment the call is made (stated for a path that still holds the
\* record id the timer was armed for, so that only the marker can be stale).
C24_NoStaleRecord ==
    (last.act = "push" /\ fileMap[last.path].id = last.id) =>
        \A t \in inflight :
            (t.kind = "patch" /\ t.h = last.h) =>
                t.file.updated_at = fileMap[t.path].updated_at

\* C25: when an Update call for path P succeeds, fileMap[P] becomes exactly the
\* record the backend returns, every other entry of fileMap is unchanged, and
\* no file is written (so no event is produced).
C25_SuccessfulPush ==
    [][\A t \in inflight :
          (t.kind = "patch" /\ last'.act = "patchOk" /\ last'.h = t.h)
          => (/\ fileMap'[t.path] = Patched(remote[t.id], t.code)
              /\ \A q \in Paths \ {t.path} : fileMap'[q] = fileMap[q]
              /\ disk' = disk
              /\ events' = events)]_vars

\* an Update has just succeeded: fileMap holds the returned record, with the
\* content that was sent, and the file is as the user left it
C25_Witness ==
    /\ last.act = "patchOk"
    /\ fileMap[last.path] = remote[last.id]
    /\ fileMap[last.path].updated_at > 1
    /\ disk[last.path] = fileMap[last.path].code

C27_ReadErrorOnlyLogged ==
    last.act = "readFail" => ~\E t \in inflight : t.h = last.h

\* C28: the handling of a created event starts exactly one Provision call, at
\* once and without a timer; a successful Provision is followed by exactly one
\* Get, for the id of the record it created; and the end of the provisioning,
\* relocation included, starts no call and queues no event.
C28_ProvisionOnce ==
    [][/\ (~isShuttingDown /\ events # <<>> /\ Head(events).type = "add"
            /\ events' = Tail(events))
          => /\ \E t \in inflight' \ inflight :
                   /\ inflight' = inflight \cup {t}
                   /\ t.kind = "post" /\ t.path = Head(events).path
             /\ timers' = timers
       /\ \A t \in inflight :
            (t.kind = "post" /\ last'.act = "postOk" /\ last'.h = t.h)
            => \E g \in inflight' \ inflight :
                   /\ inflight' = (inflight \ {t}) \cup {g}
                   /\ g.kind = "pget" /\ g.path = t.path
                   /\ remote[g.id] = NoRec /\ remote'[g.id] # NoRec
       /\ \A t \in inflight :
            (t.kind = "pget" /\ last'.act \in {"renamed", "moveFail", "created"}
                /\ last'.h = t.h)
            => (inflight' = inflight \ {t} /\ events' = events)]_vars

\* a created file was just relocated, and neither a Provision call nor a
\* created event is left anywhere
C28_Witness ==
    /\ last.act = "renamed"
    /\ InSyncMap(remote[last.id].file_path)
    /\ ~\E t \in inflight : t.kind \in {"post", "pget"}
    /\ \A k \in 1..Len(events) : events[k].type # "add"

\* C29: the relocation of a provisioned file from P to its canonical path C adds
\* no event for C to the queue, and arms no timer and starts no call.
C29_SilentRename ==
    [][\A t \in inflight :
          (Relocating(t) /\ last'.act = "renamed" /\ last'.h = t.h)
          => (/\ Len(events') = Len(events)
              /\ \A k \in 1..Len(events') :
                    events'[k].path = remote[t.id].file_path => events'[k] = events[k]
              /\ timers' = timers
              /\ inflight' = inflight \ {t})]_vars

\* a file was just relocated to C, C is watched again and no event for C is queued
C29_Witness ==
    /\ last.act = "renamed"
    /\ Watched(remote[last.id].file_path)
    /\ disk[remote[last.id].file_path] # NoFile
    /\ \A k \in 1..Len(events) : events[k].path # remote[last.id].file_path

\* C30: no step of a session removes a key from fileMap.
C30_SyncMapOnlyGrows ==
    [][\A p \in Paths : InSyncMap(p) => fileMap'[p] # NoRec]_vars

\* the file of an entry is gone, the refresh that followed the failed read has
\* failed too, and the entry is still there
C30_Witness ==
    /\ last.act = "refreshFail"
    /\ disk[last.path] = NoFile
    /\ InSyncMap(last.path)

\* the Update calls of record i that have not completed
Updating(i) == {t \in inflight : t.kind = "patch" /\ t.id = i}

\* C32: at most one Update call is in flight per record id at any time.
C32_OneUpdateInFlight == \A i \in Ids : Cardinality(Updating(i)) <= 1

\* C36: pendingUpdates has an entry for every record id that has an armed timer:
\* the completion of a push takes away the entry of the timer that fired, never
\* the entry of a timer armed later for the same id.
C36_PendingBookkeeping ==
    \A i \in Ids : Armed(i) # {} => pendingUpdates[i] # NoTimer

\* C34: when the Provision call and the follow-up Get have both succeeded, the
\* created file is not deleted: its content is afterwards at the created path or
\* at the canonical path.
C34_FileKeptWhenProvisioned ==
    [][\A t \in inflight :
          (/\ t.kind = "pget" /\ disk[t.path] # NoFile
           /\ last'.act \in {"renamed", "moveFail", "created"} /\ last'.h = t.h)
          => (\/ disk'[t.path] = disk[t.path]
              \/ disk'[remote[t.id].file_path] = disk[t.path])]_vars

\* C35: once a created file with non-empty content has been provisioned, an
\* Update call for its record is eventually started (or the user has gone on
\* acting as long as the session allows).
C35_NewContentReachesRemote ==
    \A i \in Ids :
        (/\ last.act \in {"created", "renamed"} /\ last.id = i
         /\ disk[remote[i].file_path] \notin {"", NoFile})
        ~> (Updating(i) # {} \/ userOps = MaxUserOps)

\* the steps that start a remote call or write, move or delete a file
Touching ==
    {"push", "readFail", "patchFail", "post", "postOk", "refreshOk", "restoreOk",
     "renamed", "moveFail", "postFail", "pgetFail"}

\* C33: once the shutdown has been triggered no handler step starts a remote
\* call or writes, moves or deletes a file of the workspace.
C33_QuietAfterShutdown == isShuttingDown => last.act \notin Touching

\* What the two handlers leave behind when each runs alone, as a function of
\* the contents of the two files and of what the remote answers.
\* The timer callback pushes when the content differs from the record's code
Pushes(f) == f.codeB # RecB.code
\* the record of PathB at the remote and in fileMap
ExpectedB(f) ==
    IF Pushes(f) /\ f.patch
    THEN [RecB EXCEPT !.code = IF f.codeB = "" THEN Placeholder ELSE f.codeB,
                      !.updated_at = @ + 1]
    ELSE RecB
\* the file at PathB: overwritten only by the refresh that follows a failed Update
ExpectedDiskB(f) ==
    IF Pushes(f) /\ ~f.patch /\ f.refresh THEN RecB.code ELSE f.codeB
ExpectedCallsB(f) ==
    IF ~Pushes(f) THEN {}
    ELSE {Call("patch", RecB.id, "")} \cup (IF f.patch THEN {} ELSE {Call("get", RecB.id, "")})
\* the record the remote creates for PathA
IdA == CHOOSE i \in Ids \ {RecB.id} : \A j \in Ids \ {RecB.id} : i <= j
RecA(f) == Rec(IdA, f.canonical, CHOOSE c \in TemplateCodes : TRUE, 1)
\* the file stays and gets its entry when both calls succeed and it need not move;
\* a move to PathB is refused, since PathB has a file
Kept(f) == f.post /\ f.pget /\ f.canonical = PathA
ExpectedCallsA(f) ==
    {Call("post", 0, PathA)} \cup (IF f.post THEN {Call("get", IdA, "")} ELSE {})

\* both handlers have come to their end
Terminal == events = <<>> /\ timers = {} /\ inflight = {}

\* C31: when the handling of a created event for path A and of a modified event
\* for a different path B of a different record has ended, fileMap, the files and
\* the set of remote calls made are what the two handlers produce one after the
\* other, whatever the order in which their steps and their calls completed.
C31_OrderIndependence ==
    Terminal =>
        /\ fileMap[PathB] = ExpectedB(pair)
        /\ fileMap[PathA] = (IF Kept(pair) THEN RecA(pair) ELSE NoRec)
        /\ disk[PathB] = ExpectedDiskB(pair)
        /\ disk[PathA] = (IF Kept(pair) THEN pair.codeA ELSE NoFile)
        /\ remote[RecB.id] = ExpectedB(pair)
        /\ remote[IdA] = (IF pair.post THEN RecA(pair) ELSE NoRec)
        /\ pair.calls = ExpectedCallsA(pair) \cup ExpectedCallsB(pair)

\* the Update call was the last to complete, after the provisioning had put the
\* new record into fileMap
C31_Witness ==
    /\ Terminal
    /\ last.act = "patchOk"
    /\ fileMap[PathA] # NoRec
    /\ Call("post", 0, PathA) \in pair.calls

====
